---------------------------- MODULE Spec2Model ----------------------------
(***************************************************************************)
(* A model of apache_beam/io/gcp/pubsub.py: the PubsubMessage value and    *)
(* its protobuf encode/decode, the topic/subscription name parsers, the    *)
(* _PubSubSource configuration, ReadFromPubSub / WriteToPubSub and         *)
(* MultipleReadFromPubSub.                                                 *)
(*                                                                         *)
(* Python values are tagged records, so that None, a str, a bytes, a dict  *)
(* and a raised exception are all comparable:                              *)
(*   None            [tag |-> "None"]                                      *)
(*   str / bytes     [tag |-> "str", val |-> <<"a", "b">>]                 *)
(*   dict            [tag |-> "dict", val |-> a function]                  *)
(*   list            [tag |-> "list", val |-> a sequence]                  *)
(*   raise E(...)    [tag |-> "error", kind |-> "..."]                     *)
(* A string is the sequence of its characters.  Every exception of the     *)
(* file is a ValueError or a TypeError; "kind" tells the raise statements  *)
(* apart by the names the design document gives them.                      *)
(***************************************************************************)
EXTENDS Integers, Sequences, FiniteSets, TLC

VARIABLES
    full_name,   \* parser: the string handed to parse_topic / parse_subscription
    parse_fn,    \* parser: which of the two functions ran ("" before the call)
    parsed,      \* parser: what the call returned or raised
    data,        \* message: the data argument of PubsubMessage(data, attributes)
    attributes,  \* message: the attributes argument
    message,     \* message: the object built, or the exception raised
    proto_msg,   \* message: serialized protobuf bytes (from _to_proto_str or the broker)
    hashed,      \* message: what hash(message) returned or raised
    decoded,     \* message: what _from_proto_str(proto_msg) returned or raised
    read_args,   \* read: the arguments of ReadFromPubSub(...)
    read,        \* read: the ReadFromPubSub built, or the exception raised
    payload,     \* read: the PubSubReadPayload exported by to_runner_api_parameter
    rebuilt,     \* read: what from_runner_api_parameter(payload) returned or raised
    write_with_attributes,  \* write: WriteToPubSub.with_attributes
    pcoll,       \* write: the input elements, in the order they are processed
    written,     \* write: the elements handed to Write(self._sink)
    write_error, \* write: the exception that ended the processing, or None
    multi_args,  \* fan-out: the arguments of MultipleReadFromPubSub(...)
    multi,       \* fan-out: the MultipleReadFromPubSub built, or the exception raised
    expand_pc,   \* fan-out: where expand() is: "idle", "loop", "flattened", "raised"
    source,      \* fan-out: expand's loop variable `source`
    sources_pcol,  \* fan-out: expand's list of per-source outputs (read, context step)
    expand_error,  \* fan-out: the exception expand() raised, or None
    produced,    \* fan-out: how many elements each source's read has delivered
    pending,     \* fan-out: per source, the delivered elements not yet merged
    merged       \* fan-out: the output of Flatten

parseVars == <<full_name, parse_fn, parsed>>
msgVars == <<data, attributes, message, proto_msg, decoded, hashed>>
readVars == <<read_args, read, payload, rebuilt>>
writeVars == <<write_with_attributes, pcoll, written, write_error>>
multiVars == <<multi_args, multi, expand_pc, source, sources_pcol, expand_error,
               produced, pending, merged>>
vars == <<parseVars, msgVars, readVars, writeVars, multiVars>>

----------------------------------------------------------------------------
(* Python values *)

None == [tag |-> "None"]
Pending == [tag |-> "pending"]
Str(s) == [tag |-> "str", val |-> s]
Err(kind) == [tag |-> "error", kind |-> kind]
IsErr(v) == v.tag = "error"

\* Python truthiness of an Optional[str]: None and "" are false.
Truthy(v) == v.tag = "str" /\ v.val # <<>>

----------------------------------------------------------------------------
(* Bounds of the checked inputs *)

\* project segments are all strings of at most this many characters
MaxProjLen == 6
\* resource names are all strings of at most this many characters
MaxNameLen == 2

----------------------------------------------------------------------------
(* Resource names: PROJECT_ID_REGEXP, TOPIC_REGEXP, SUBSCRIPTION_REGEXP *)

Lower == {"a", "b", "c", "d", "e", "f", "g", "h", "i", "j", "k", "l", "m",
          "n", "o", "p", "q", "r", "s", "t", "u", "v", "w", "x", "y", "z"}
Digit == {"0", "1", "2", "3", "4", "5", "6", "7", "8", "9"}
\* the class [-a-z0-9:.]
MidClass == Lower \cup Digit \cup {"-", ":", "."}
\* the class [a-z0-9]
LastClass == Lower \cup Digit
\* the repetition {4,61}
MinMid == 4
MaxMid == 61

ProjectsPrefix == <<"p", "r", "o", "j", "e", "c", "t", "s", "/">>
TopicsInfix == <<"/", "t", "o", "p", "i", "c", "s", "/">>
SubscriptionsInfix ==
    <<"/", "s", "u", "b", "s", "c", "r", "i", "p", "t", "i", "o", "n", "s", "/">>

NoMatch == [tag |-> "nomatch"]

\* The longest run of characters outside `stop` that starts at s[i].
RunLen(s, i, stop) ==
    CHOOSE n \in 0..Len(s) :
        /\ i + n - 1 <= Len(s)
        /\ \A j \in i..(i + n - 1) : s[j] \notin stop
        /\ (i + n > Len(s) \/ s[i + n] \in stop)

\* re.match('projects/([^/]+)<infix>(.+)', s): anchored at the start only.
\* [^/]+ takes every character up to the next '/', line breaks included;
\* .+ takes every character up to the next line break (no DOTALL) and
\* nothing has to follow it.
ReMatchResource(infix, s) ==
    LET p0 == Len(ProjectsPrefix)
        n1 == RunLen(s, p0 + 1, {"/"})
        q0 == p0 + n1
        r0 == q0 + Len(infix)
        n2 == RunLen(s, r0 + 1, {"\n"})
    IN  IF /\ Len(s) >= p0
           /\ SubSeq(s, 1, p0) = ProjectsPrefix
           /\ n1 >= 1
           /\ Len(s) >= r0
           /\ SubSeq(s, q0 + 1, r0) = infix
           /\ n2 >= 1
        THEN [tag |-> "match",
              g1 |-> SubSeq(s, p0 + 1, q0),
              g2 |-> SubSeq(s, r0 + 1, r0 + n2)]
        ELSE NoMatch

\* re.match(PROJECT_ID_REGEXP, project): anchored at the start only, so it
\* holds as soon as some prefix of `project` has the shape.
ReMatchProjectId(project) ==
    \E k \in MinMid..MaxMid :
        /\ Len(project) >= k + 2
        /\ project[1] \in Lower
        /\ \A j \in 2..(k + 1) : project[j] \in MidClass
        /\ project[k + 2] \in LastClass


ParseResource(infix, s) ==
    LET match == ReMatchResource(infix, s)
    IN  IF match = NoMatch THEN Err("InvalidFormat")
        ELSE IF ~ReMatchProjectId(match.g1) THEN Err("InvalidProjectId")
        ELSE [tag |-> "ok", project |-> match.g1, name |-> match.g2]

parse_topic(full_topic) == ParseResource(TopicsInfix, full_topic)

parse_subscription(full_subscription) ==
    ParseResource(SubscriptionsInfix, full_subscription)

----------------------------------------------------------------------------
(* The parser's inputs *)

RECURSIVE SeqsUpTo(_, _)
SeqsUpTo(S, n) ==
    IF n = 0 THEN {<<>>}
    ELSE LET shorter == SeqsUpTo(S, n - 1)
         IN  shorter \cup {Append(s, c) : s \in {t \in shorter : Len(t) = n - 1}, c \in S}

Fill(c, n) == [i \in 1..n |-> c]

\* a lowercase letter, a digit, a separator of the middle class, a character
\* outside every class
ProjectChars == {"a", "0", "-", "A"}
NameChars == {"t", "/", "\n"}

ShortProjects == SeqsUpTo(ProjectChars, MaxProjLen)
\* projects of MaxMid + 1 .. MaxMid + 3 characters, all of them legal
LongProjects == {<<"a">> \o Fill("b", k) \o <<"c">> : k \in (MaxMid - 1)..(MaxMid + 1)}
\* a legal project followed by characters the grammar forbids
TailedProjects == {<<"a", "b", "c", "d", "e", "f">> \o t : t \in {<<"A">>, <<"-">>, <<"\n">>, <<"g", "!">>}}
SampleProjects == {<<"a", "b", "c", "d", "e", "f">>, <<"a", "b">>}

Names == SeqsUpTo(NameChars, MaxNameLen)
Infixes == {TopicsInfix, SubscriptionsInfix, <<"/", "t", "o", "p", "i", "c", "/">>}

FullNames ==
    {ProjectsPrefix \o p \o TopicsInfix \o <<"t">> :
        p \in ShortProjects \cup LongProjects \cup TailedProjects}
    \cup {ProjectsPrefix \o p \o x \o n : p \in SampleProjects, x \in Infixes, n \in Names}
    \cup {<<>>, <<"t">>, <<"x">> \o ProjectsPrefix \o <<"a", "b", "c", "d", "e", "f">> \o TopicsInfix \o <<"t">>}

----------------------------------------------------------------------------
(* The parser as a state machine: one call on one input *)

ParseIdle ==
    /\ full_name = None
    /\ parse_fn = ""
    /\ parsed = Pending

ParseInit ==
    /\ full_name \in {Str(s) : s \in FullNames}
    /\ parse_fn = ""
    /\ parsed = Pending

ParseTopic ==
    /\ parse_fn = ""
    /\ parse_fn' = "parse_topic"
    /\ parsed' = parse_topic(full_name.val)
    /\ UNCHANGED full_name

ParseSubscription ==
    /\ parse_fn = ""
    /\ parse_fn' = "parse_subscription"
    /\ parsed' = parse_subscription(full_name.val)
    /\ UNCHANGED full_name

----------------------------------------------------------------------------
(* PubsubMessage *)

\* data is a bytes of at most this many bytes
MaxDataLen == 1
\* attributes has at most this many keys (key i stands for the str "k<i>")
MaxAttrs == 2

Dict(f) == [tag |-> "dict", val |-> f]
EmptyDict == Dict(<<>>)

ByteVals == {"x", "y"}
AttrKeys == 1..MaxAttrs
AttrVals == {"v", "w"}

BytesValues == {Str(b) : b \in SeqsUpTo(ByteVals, MaxDataLen)}
DictValues == {Dict(f) : f \in UNION {[K -> AttrVals] : K \in SUBSET AttrKeys}}

\* bool(attributes) of `not attributes`: None and {} are false
AttributesTruthy(a) == a.tag = "dict" /\ DOMAIN a.val # {}

\* a constructor that tests `attributes is None` instead of `not attributes`
PubsubMessage_NoneOnly(d, a) ==
    IF d = None /\ a = None THEN Err("ValueError")
    ELSE [tag |-> "PubsubMessage", data |-> d, attributes |-> a]

\* PubsubMessage.__init__
PubsubMessage(d, a) ==
    IF d = None /\ ~AttributesTruthy(a) THEN Err("ValueError")
    ELSE [tag |-> "PubsubMessage", data |-> d, attributes |-> a]

\* PubsubMessage.__eq__
MessageEq(m1, m2) ==
    /\ m1.tag = "PubsubMessage"
    /\ m2.tag = "PubsubMessage"
    /\ m1.data = m2.data
    /\ m1.attributes = m2.attributes

\* PubsubMessage.__hash__: hash((self.data, frozenset(self.attributes.items()))).
\* The hash is a function of the pair it is taken of, so the pair stands for
\* it; None has no items() and raises AttributeError.
Message_hash(m) ==
    IF m.attributes = None THEN Err("AttributeError")
    ELSE [tag |-> "hash",
          of |-> <<m.data, {<<k, m.attributes.val[k]>> : k \in DOMAIN m.attributes.val}>>]

\* A serialized google.pubsub.v1.PubsubMessage is the set of the fields on the
\* wire.  proto3 writes a bytes field only when it is not empty and writes one
\* entry per key of a map; the order of the entries carries nothing.
DataField(b) == [field |-> "data", val |-> b]
AttrField(k, v) == [field |-> "attributes", key |-> k, val |-> v]

SerializeToString(d, a) ==
    (IF d = <<>> THEN {} ELSE {DataField(d)})
    \cup {AttrField(k, a[k]) : k \in DOMAIN a}

\* PubsubMessage._to_proto_str.  `msg.data = self.data` raises TypeError on
\* None (a protobuf bytes field takes bytes only), and iteritems(None) raises
\* AttributeError.
Message_to_proto_str(m) ==
    IF m.data = None THEN Err("TypeError")
    ELSE IF m.attributes = None THEN Err("AttributeError")
    ELSE [tag |-> "bytes", wire |-> SerializeToString(m.data.val, m.attributes.val)]

\* msg.ParseFromString(proto_msg); msg.data, msg.attributes.  A field that is
\* not on the wire reads as its default: b'' and the empty map.
ParsedData(wire) ==
    IF \E f \in wire : f.field = "data"
    THEN (CHOOSE f \in wire : f.field = "data").val
    ELSE <<>>

ParsedAttributes(wire) ==
    LET entries == {f \in wire : f.field = "attributes"}
    IN  [k \in {f.key : f \in entries} |->
            (CHOOSE f \in entries : f.key = k).val]

\* PubsubMessage._from_proto_str
Message_from_proto_str(wire) ==
    PubsubMessage(Str(ParsedData(wire)), Dict(ParsedAttributes(wire)))

\* Well-formed payloads as a broker may deliver them: at most one data field
\* (an empty one may be written out explicitly) and one entry per key.
Wires ==
    {dpart \cup {AttrField(k, a.val[k]) : k \in DOMAIN a.val} :
        dpart \in {{}} \cup {{DataField(b.val)} : b \in BytesValues},
        a \in DictValues}

----------------------------------------------------------------------------
(* A message's life: built by the caller, encoded, decoded; or decoded from *)
(* bytes the broker delivered                                              *)

MsgIdle ==
    /\ data = None
    /\ attributes = None
    /\ message = Pending
    /\ proto_msg = Pending
    /\ decoded = Pending
    /\ hashed = Pending

MsgInit ==
    /\ data \in {None} \cup BytesValues
    /\ attributes \in {None} \cup DictValues
    /\ message = Pending
    /\ proto_msg = Pending
    /\ decoded = Pending
    /\ hashed = Pending

Construct ==
    /\ message = Pending
    /\ proto_msg = Pending
    /\ message' = PubsubMessage(data, attributes)
    /\ UNCHANGED <<data, attributes, proto_msg, decoded, hashed>>

ToProtoStr ==
    /\ message.tag = "PubsubMessage"
    /\ proto_msg = Pending
    /\ proto_msg' = Message_to_proto_str(message)
    /\ UNCHANGED <<data, attributes, message, decoded, hashed>>

\* the bytes come from the broker instead of from a message of this process
ReceiveProto ==
    /\ message = Pending
    /\ proto_msg = Pending
    /\ \E w \in Wires : proto_msg' = [tag |-> "bytes", wire |-> w]
    /\ UNCHANGED <<data, attributes, message, decoded, hashed>>

FromProtoStr ==
    /\ proto_msg.tag = "bytes"
    /\ decoded = Pending
    /\ decoded' = Message_from_proto_str(proto_msg.wire)
    /\ UNCHANGED <<data, attributes, message, proto_msg, hashed>>

\* the message is used as a key: hash(message)
Hash ==
    /\ message.tag = "PubsubMessage"
    /\ hashed = Pending
    /\ hashed' = Message_hash(message)
    /\ UNCHANGED <<data, attributes, message, proto_msg, decoded>>

----------------------------------------------------------------------------
(* _PubSubSource and ReadFromPubSub *)

\* a constructor without the `topic and subscription` test
PubSubSource_NoConflictTest(topic, subscription, id_label, with_attributes, timestamp_attribute) ==
    LET t == IF Truthy(topic) THEN parse_topic(topic.val) ELSE None
        u == IF Truthy(subscription) THEN parse_subscription(subscription.val) ELSE None
    IN  IF ~(Truthy(topic) \/ Truthy(subscription)) THEN Err("MissingAddress")
        ELSE IF IsErr(t) THEN t
        ELSE IF IsErr(u) THEN u
        ELSE [tag |-> "_PubSubSource",
              full_topic |-> topic,
              full_subscription |-> subscription,
              topic_name |-> IF Truthy(topic) THEN Str(t.name) ELSE None,
              subscription_name |-> IF Truthy(subscription) THEN Str(u.name) ELSE None,
              project |-> IF Truthy(subscription) THEN Str(u.project) ELSE Str(t.project),
              id_label |-> id_label,
              with_attributes |-> with_attributes,
              timestamp_attribute |-> timestamp_attribute]

\* _PubSubSource.__init__.  `topic or subscription` and `topic and
\* subscription` test truthiness: None and '' both count as not given.
PubSubSource(topic, subscription, id_label, with_attributes, timestamp_attribute) ==
    LET t == IF Truthy(topic) THEN parse_topic(topic.val) ELSE None
        u == IF Truthy(subscription) THEN parse_subscription(subscription.val) ELSE None
    IN  IF ~(Truthy(topic) \/ Truthy(subscription)) THEN Err("MissingAddress")
        ELSE IF Truthy(topic) /\ Truthy(subscription) THEN Err("ConflictingAddress")
        ELSE IF IsErr(t) THEN t
        ELSE IF IsErr(u) THEN u
        ELSE [tag |-> "_PubSubSource",
              full_topic |-> topic,
              full_subscription |-> subscription,
              topic_name |-> IF Truthy(topic) THEN Str(t.name) ELSE None,
              subscription_name |-> IF Truthy(subscription) THEN Str(u.name) ELSE None,
              project |-> IF Truthy(topic) THEN Str(t.project) ELSE Str(u.project),
              id_label |-> id_label,
              with_attributes |-> with_attributes,
              timestamp_attribute |-> timestamp_attribute]

\* ReadFromPubSub.__init__
ReadFromPubSub(topic, subscription, id_label, with_attributes, timestamp_attribute) ==
    LET src == PubSubSource(topic, subscription, id_label, with_attributes,
                            timestamp_attribute)
    IN  IF IsErr(src) THEN src
        ELSE [tag |-> "ReadFromPubSub",
              with_attributes |-> with_attributes,
              source |-> src]

\* A string field of beam_runner_api_pb2.PubSubReadPayload: a proto3 string
\* has no "unset" value, a field given as None reads back as ''.
ProtoString(v) == IF v = None THEN Str(<<>>) ELSE v

\* ReadFromPubSub._pubsub_read_payload
pubsub_read_payload(transform) ==
    [tag |-> "PubSubReadPayload",
     topic |-> ProtoString(transform.source.full_topic),
     subscription |-> ProtoString(transform.source.full_subscription),
     timestamp_attribute |-> ProtoString(transform.source.timestamp_attribute),
     id_attribute |-> ProtoString(transform.source.id_label),
     with_attributes |-> transform.with_attributes]

\* ReadFromPubSub.from_runner_api_parameter
from_runner_api_parameter(pubsub_read_payload_) ==
    ReadFromPubSub(pubsub_read_payload_.topic,
                   pubsub_read_payload_.subscription,
                   pubsub_read_payload_.id_attribute,
                   pubsub_read_payload_.with_attributes,
                   pubsub_read_payload_.timestamp_attribute)

\* the resource strings the transforms are given
GoodProject == <<"a", "b", "c", "d", "e", "f">>
TopicA == ProjectsPrefix \o GoodProject \o TopicsInfix \o <<"a">>
SubscriptionS == ProjectsPrefix \o GoodProject \o SubscriptionsInfix \o <<"s">>
TopicBadProject == ProjectsPrefix \o <<"a", "b">> \o TopicsInfix \o <<"t">>
NotAResource == <<"x">>

AddressValues ==
    {None, Str(<<>>)} \cup
    {Str(s) : s \in {TopicA, SubscriptionS, TopicBadProject, NotAResource}}
LabelValues == {None, Str(<<>>), Str(<<"i", "d">>)}

ReadIdle ==
    /\ read_args = None
    /\ read = Pending
    /\ payload = Pending
    /\ rebuilt = Pending

ReadInit ==
    /\ read_args \in [topic : AddressValues, subscription : AddressValues,
                      id_label : LabelValues, with_attributes : BOOLEAN,
                      timestamp_attribute : LabelValues]
    /\ read = Pending
    /\ payload = Pending
    /\ rebuilt = Pending

NewReadFromPubSub ==
    /\ read = Pending
    /\ read' = ReadFromPubSub(read_args.topic, read_args.subscription,
                              read_args.id_label, read_args.with_attributes,
                              read_args.timestamp_attribute)
    /\ UNCHANGED <<read_args, payload, rebuilt>>

ToRunnerApi ==
    /\ read.tag = "ReadFromPubSub"
    /\ payload = Pending
    /\ payload' = pubsub_read_payload(read)
    /\ UNCHANGED <<read_args, read, rebuilt>>

FromRunnerApi ==
    /\ payload.tag = "PubSubReadPayload"
    /\ rebuilt = Pending
    /\ rebuilt' = from_runner_api_parameter(payload)
    /\ UNCHANGED <<read_args, read, payload>>

----------------------------------------------------------------------------
(* WriteToPubSub *)

\* the input holds at most this many elements
MaxElements == 2

\* a to_proto_str without the isinstance test: other elements pass through
WriteToPubSub_to_proto_str_Unchecked(element) ==
    IF element.tag # "PubsubMessage" THEN element
    ELSE Message_to_proto_str(element)

\* WriteToPubSub.to_proto_str
WriteToPubSub_to_proto_str(element) ==
    IF element.tag # "PubsubMessage" THEN Err("TypeMismatch")
    ELSE Message_to_proto_str(element)

\* what a caller can put into the input: messages the constructor accepted
\* and raw bytes
MessageValues ==
    {m \in {PubsubMessage(d, a) :
                d \in {None, Str(<<>>), Str(<<"x">>)},
                a \in {None, EmptyDict, Dict([k \in {1} |-> "v"])}} :
        m.tag = "PubsubMessage"}
ElementValues == MessageValues \cup {Str(<<>>), Str(<<"x">>)}

WriteIdle ==
    /\ write_with_attributes = FALSE
    /\ pcoll = <<>>
    /\ written = <<>>
    /\ write_error = None

WriteInit ==
    /\ write_with_attributes \in BOOLEAN
    /\ pcoll \in UNION {[1..n -> ElementValues] : n \in 0..MaxElements}
    /\ written = <<>>
    /\ write_error = None

\* WriteToPubSub.expand on the next element, `done` elements being behind it:
\* Map(self.to_proto_str) when with_attributes, then Write(self._sink).  An
\* exception of the mapped function ends the processing.
NextElement(done) == pcoll[done + 1]

WriteElement ==
    /\ write_error = None
    /\ Len(written) < Len(pcoll)
    /\ LET element == NextElement(Len(written))
           out == IF write_with_attributes
                  THEN WriteToPubSub_to_proto_str(element)
                  ELSE element
       IN  IF IsErr(out)
           THEN /\ write_error' = out
                /\ UNCHANGED written
           ELSE /\ written' = Append(written, out)
                /\ UNCHANGED write_error
    /\ UNCHANGED <<write_with_attributes, pcoll>>

----------------------------------------------------------------------------
(* MultipleReadFromPubSub *)

\* source_list holds at most this many sources
MaxSources == 2
\* each source's read delivers at most this many elements
MaxEmit == 1

List(q) == [tag |-> "list", val |-> q]

\* `isinstance(x, str) or x is None`: one value for every source; else a list
\* whose length must be the number of sources
ResolvePerSource(value, total_sources) ==
    IF value.tag \in {"str", "None"} THEN List([i \in 1..total_sources |-> value])
    ELSE IF Len(value.val) # total_sources THEN Err("ParameterCountMismatch")
    ELSE value

\* re.match(TOPIC_REGEXP, source) or re.match(SUBSCRIPTION_REGEXP, source)
MatchesSource(s) ==
    \/ ReMatchResource(TopicsInfix, s) # NoMatch
    \/ ReMatchResource(SubscriptionsInfix, s) # NoMatch

\* a loop that looks at the first source only
SourcesToValidate_FirstOnly(source_list) == {i \in DOMAIN source_list : i = 1}

\* `for source in self.source_list`
SourcesToValidate(source_list) == DOMAIN source_list

\* MultipleReadFromPubSub.__init__
MultipleReadFromPubSub(source_list, with_context, id_label, with_attributes, timestamp_attribute, kwargs) ==
    LET total_sources == Len(source_list)
        ids == ResolvePerSource(id_label, total_sources)
        stamps == ResolvePerSource(timestamp_attribute, total_sources)
    IN  IF IsErr(ids) THEN ids
        ELSE IF IsErr(stamps) THEN stamps
        ELSE IF \E i \in SourcesToValidate(source_list) : ~MatchesSource(source_list[i])
             THEN Err("InvalidSource")
        ELSE IF "topic" \in kwargs THEN Err("AmbiguousConfiguration")
        ELSE IF "subscription" \in kwargs THEN Err("AmbiguousConfiguration")
        ELSE [tag |-> "MultipleReadFromPubSub",
              source_list |-> source_list,
              with_context |-> with_context,
              with_attributes |-> with_attributes,
              id_label |-> ids.val,
              timestamp_attribute |-> stamps.val]

\* source.split('/')
RECURSIVE Split(_)
Split(s) ==
    LET n == RunLen(s, 1, {"/"})
    IN  IF n = Len(s) THEN <<s>>
        ELSE <<SubSeq(s, 1, n)>> \o Split(SubSeq(s, n + 2, Len(s)))

\* an indexing that takes the first entry for every source
PerSource_First(values, i) == values[1]

\* self.id_label[i], self.timestamp_attribute[i]
PerSource(values, i) == values[i]

\* the body of expand's loop up to the ReadFromPubSub it builds for source i
ReadForSource(self, i) ==
    LET src == self.source_list[i]
        source_type == Split(src)[3]
    IN  IF source_type = <<"t", "o", "p", "i", "c", "s">>
        THEN ReadFromPubSub(Str(src), None, PerSource(self.id_label, i),
                            self.with_attributes,
                            PerSource(self.timestamp_attribute, i))
        ELSE ReadFromPubSub(None, Str(src), PerSource(self.id_label, i),
                            self.with_attributes,
                            PerSource(self.timestamp_attribute, i))

\* Map(fn) keeps its own serialized copy of fn, taken when Map is called:
\* the copy of `lambda message: (source, message)` holds the value that
\* expand's variable `source` had at that moment, not the variable.
MapOf(cell) == [tag |-> "Map", source |-> cell]

\* a lambda that pairs with the short name, source_name, instead of source
AddContext_ShortName(fn, element) ==
    LET source_split == Split(fn.source.val)
    IN  [tag |-> "tuple",
         first |-> Str(source_split[Len(source_split)]),
         second |-> element]

\* lambda message: (source, message)
AddContext(fn, element) ==
    [tag |-> "tuple", first |-> fn.source, second |-> element]

\* a Flatten that is given only the stream appended last
FlattenInputs_LastOnly(pcols) == {Len(pcols)}

\* tuple(sources_pcol): the streams handed to Flatten, one for every pass of
\* the loop, each of them appended once
FlattenInputs(pcols) == DOMAIN pcols

\* Flatten: an element of any one input goes into the output as it is, once,
\* whatever the other inputs hold
Flatten(output, element) == Append(output, element)

SourceStrings == {TopicA, SubscriptionS, TopicBadProject, NotAResource}
SourceLists == UNION {[1..n -> SourceStrings] : n \in 1..MaxSources}
\* the list ["id1", ..., "idn"]
DigitChars == <<"1", "2", "3", "4", "5", "6", "7", "8", "9">>
LabelList(n) == List([i \in 1..n |-> Str(<<"i", "d", DigitChars[i]>>)])
PerSourceArgs == {None, Str(<<"i", "d">>)} \cup {LabelList(n) : n \in 0..(MaxSources + 1)}

MultiIdle ==
    /\ multi_args = None
    /\ multi = Pending
    /\ expand_pc = "idle"
    /\ source = None
    /\ sources_pcol = <<>>
    /\ expand_error = None
    /\ produced = <<>>
    /\ pending = <<>>
    /\ merged = <<>>

MultiInit ==
    /\ multi_args \in [source_list : SourceLists, with_context : BOOLEAN,
                       id_label : PerSourceArgs, with_attributes : BOOLEAN,
                       timestamp_attribute : PerSourceArgs,
                       kwargs : {{}, {"topic"}, {"subscription"}}]
    /\ multi = Pending
    /\ expand_pc = "idle"
    /\ source = None
    /\ sources_pcol = <<>>
    /\ expand_error = None
    /\ produced = <<>>
    /\ pending = <<>>
    /\ merged = <<>>

NewMultipleRead ==
    /\ multi = Pending
    /\ multi' = MultipleReadFromPubSub(multi_args.source_list, multi_args.with_context,
                                       multi_args.id_label, multi_args.with_attributes,
                                       multi_args.timestamp_attribute, multi_args.kwargs)
    /\ UNCHANGED <<multi_args, expand_pc, source, sources_pcol, expand_error,
                   produced, pending, merged>>

\* expand(): sources_pcol = []
ExpandBegin ==
    /\ multi.tag = "MultipleReadFromPubSub"
    /\ expand_pc = "idle"
    /\ expand_pc' = "loop"
    /\ UNCHANGED <<multi_args, multi, source, sources_pcol, expand_error,
                   produced, pending, merged>>

\* one pass of `for i, source in enumerate(self.source_list)`
ExpandIteration ==
    /\ expand_pc = "loop"
    /\ Len(sources_pcol) < Len(multi.source_list)
    /\ LET i == Len(sources_pcol) + 1
           current_source == ReadForSource(multi, i)
       IN  /\ source' = Str(multi.source_list[i])
           /\ IF IsErr(current_source)
              THEN /\ expand_error' = current_source
                   /\ expand_pc' = "raised"
                   /\ UNCHANGED sources_pcol
              ELSE /\ sources_pcol' = Append(sources_pcol,
                                             [read |-> current_source,
                                              context |-> IF multi.with_context
                                                          THEN MapOf(source')
                                                          ELSE None])
                   /\ UNCHANGED <<expand_error, expand_pc>>
    /\ UNCHANGED <<multi_args, multi, produced, pending, merged>>

\* return tuple(sources_pcol) | Flatten()
ExpandFlatten ==
    /\ expand_pc = "loop"
    /\ Len(sources_pcol) = Len(multi.source_list)
    /\ expand_pc' = "flattened"
    /\ produced' = [i \in FlattenInputs(sources_pcol) |-> 0]
    /\ pending' = [i \in FlattenInputs(sources_pcol) |-> <<>>]
    /\ UNCHANGED <<multi_args, multi, source, sources_pcol, expand_error, merged>>

\* the pipeline runs: the read of source i delivers its next element
SourceEmits(i) ==
    /\ expand_pc = "flattened"
    /\ produced[i] < MaxEmit
    /\ produced' = [produced EXCEPT ![i] = @ + 1]
    /\ pending' = [pending EXCEPT
                      ![i] = Append(@, [tag |-> "element", from |-> i,
                                        seq |-> produced[i] + 1])]
    /\ UNCHANGED <<multi_args, multi, expand_pc, source, sources_pcol,
                   expand_error, merged>>

\* the oldest element of source i goes through its Map (when with_context)
\* and through Flatten into the output
MergeFrom(i) ==
    /\ expand_pc = "flattened"
    /\ pending[i] # <<>>
    /\ LET element == Head(pending[i])
           out == IF sources_pcol[i].context # None
                  THEN AddContext(sources_pcol[i].context, element)
                  ELSE element
       IN  merged' = Flatten(merged, out)
    /\ pending' = [pending EXCEPT ![i] = Tail(@)]
    /\ UNCHANGED <<multi_args, multi, expand_pc, source, sources_pcol,
                   expand_error, produced>>

----------------------------------------------------------------------------
(* Specifications *)

ParseNext ==
    \/ ParseTopic /\ UNCHANGED <<msgVars, readVars, writeVars, multiVars>>
    \/ ParseSubscription /\ UNCHANGED <<msgVars, readVars, writeVars, multiVars>>

ParseStart == ParseInit /\ MsgIdle /\ ReadIdle /\ WriteIdle /\ MultiIdle

SpecParse == ParseStart /\ [][ParseNext]_vars

MsgNext ==
    \/ Construct /\ UNCHANGED <<parseVars, readVars, writeVars, multiVars>>
    \/ ToProtoStr /\ UNCHANGED <<parseVars, readVars, writeVars, multiVars>>
    \/ ReceiveProto /\ UNCHANGED <<parseVars, readVars, writeVars, multiVars>>
    \/ FromProtoStr /\ UNCHANGED <<parseVars, readVars, writeVars, multiVars>>
    \/ Hash /\ UNCHANGED <<parseVars, readVars, writeVars, multiVars>>

MsgStart == MsgInit /\ ParseIdle /\ ReadIdle /\ WriteIdle /\ MultiIdle

SpecMsg == MsgStart /\ [][MsgNext]_vars

ReadNext ==
    \/ NewReadFromPubSub /\ UNCHANGED <<parseVars, msgVars, writeVars, multiVars>>
    \/ ToRunnerApi /\ UNCHANGED <<parseVars, msgVars, writeVars, multiVars>>
    \/ FromRunnerApi /\ UNCHANGED <<parseVars, msgVars, writeVars, multiVars>>

ReadStart == ReadInit /\ ParseIdle /\ MsgIdle /\ WriteIdle /\ MultiIdle

SpecRead == ReadStart /\ [][ReadNext]_vars

WriteNext == WriteElement /\ UNCHANGED <<parseVars, msgVars, readVars, multiVars>>

WriteStart == WriteInit /\ ParseIdle /\ MsgIdle /\ ReadIdle /\ MultiIdle

SpecWrite == WriteStart /\ [][WriteNext]_vars

MultiNext ==
    \/ NewMultipleRead /\ UNCHANGED <<parseVars, msgVars, readVars, writeVars>>
    \/ ExpandBegin /\ UNCHANGED <<parseVars, msgVars, readVars, writeVars>>
    \/ ExpandIteration /\ UNCHANGED <<parseVars, msgVars, readVars, writeVars>>
    \/ ExpandFlatten /\ UNCHANGED <<parseVars, msgVars, readVars, writeVars>>
    \/ \E i \in DOMAIN pending :
          SourceEmits(i) /\ UNCHANGED <<parseVars, msgVars, readVars, writeVars>>
    \/ \E i \in DOMAIN pending :
          MergeFrom(i) /\ UNCHANGED <<parseVars, msgVars, readVars, writeVars>>

MultiStart == MultiInit /\ ParseIdle /\ MsgIdle /\ ReadIdle /\ WriteIdle

SpecMulti == MultiStart /\ [][MultiNext]_vars

----------------------------------------------------------------------------
(* The design document's project-id grammar, ^[a-z][-a-z0-9:.]{4,61}[a-z0-9]$, *)
(* read on the whole project segment                                        *)

ProjectIdGrammar(project) ==
    /\ Len(project) \in (MinMid + 2)..(MaxMid + 2)
    /\ project[1] \in Lower
    /\ \A j \in 2..(Len(project) - 1) : project[j] \in MidClass
    /\ project[Len(project)] \in LastClass

\* the project segment of a string whose fixed prefix matches
ProjectSegment(infix, s) == ReMatchResource(infix, s).g1

ParsedInfix == IF parse_fn = "parse_topic" THEN TopicsInfix ELSE SubscriptionsInfix

(* C4: parseTopic and parseSubscription succeed only if the whole project  *)
(* segment satisfies the project-id grammar, and every input whose fixed   *)
(* prefix matches but whose project segment violates the grammar fails     *)
(* with InvalidProjectId.                                                  *)
C4_ProjectIdWhole ==
    (parse_fn # "" /\ ReMatchResource(ParsedInfix, full_name.val) # NoMatch) =>
        IF ProjectIdGrammar(ProjectSegment(ParsedInfix, full_name.val))
        THEN TRUE
        ELSE parsed = Err("InvalidProjectId")

(* C5: for every s that parseTopic accepts, "projects/" + project +        *)
(* "/topics/" + name = s, also when the name holds '/' or a line break;    *)
(* every s that does not match the topic pattern raises InvalidFormat.     *)
C5_TopicRejoin ==
    parse_fn = "parse_topic" =>
        /\ parsed.tag = "ok" =>
              ProjectsPrefix \o parsed.project \o TopicsInfix \o parsed.name
                  = full_name.val
        /\ ReMatchResource(TopicsInfix, full_name.val) = NoMatch =>
              parsed = Err("InvalidFormat")

----------------------------------------------------------------------------
(* Claims about PubsubMessage, checked under SpecMsg *)

(* C1: for every Message the constructor accepts (data absent with a       *)
(* non-empty attributes map included), encode succeeds and                 *)
(* decode(encode(m)) equals m under Message equality.                      *)
C1_RoundTrip ==
    message.tag = "PubsubMessage" =>
        /\ proto_msg # Pending => proto_msg.tag = "bytes"
        /\ decoded # Pending => MessageEq(decoded, message)

(* C11: two Messages are equal iff their data are equal and their         *)
(* attributes are equal; for every Message the constructor accepts the     *)
(* hash is defined, and two equal Messages have the same hash.             *)
C11_EqualityAndHash ==
    message.tag = "PubsubMessage" =>
        /\ decoded.tag = "PubsubMessage" =>
              /\ MessageEq(message, decoded) <=>
                    (message.data = decoded.data
                     /\ message.attributes = decoded.attributes)
              /\ (MessageEq(message, decoded) /\ hashed # Pending) =>
                    Message_hash(decoded) = hashed
        /\ hashed # Pending => hashed.tag = "hash"

HasDataOrAttributes(m) == m.data # None \/ AttributesTruthy(m.attributes)

(* C2: constructing a Message fails with a usage error exactly when data   *)
(* is None and attributes is None or empty, so every Message that exists,  *)
(* built by a caller or by decode, has data present or a non-empty         *)
(* attributes map.                                                         *)
C2_MessageInvariant ==
    /\ message # Pending =>
          /\ IsErr(message) <=>
                (data = None /\ (attributes = None \/ attributes = EmptyDict))
          /\ IsErr(message) => message = Err("ValueError")
          /\ ~IsErr(message) => (message.data = data /\ message.attributes = attributes)
    /\ message.tag = "PubsubMessage" => HasDataOrAttributes(message)
    /\ decoded.tag = "PubsubMessage" => HasDataOrAttributes(decoded)

\* the constructor has refused None with an empty map
C2_Witness ==
    /\ data = None
    /\ attributes = EmptyDict
    /\ message = Err("ValueError")

----------------------------------------------------------------------------
(* Claims about _PubSubSource / ReadFromPubSub, checked under SpecRead *)

PopulatedAsParsed(src, name_field, other_field, parse_result) ==
    /\ src[name_field] = Str(parse_result.name)
    /\ src[other_field] = None
    /\ src.project = Str(parse_result.project)

SourceOfExactlyOne ==
    /\ (Truthy(read_args.topic) /\ ~Truthy(read_args.subscription)) =>
          LET r == parse_topic(read_args.topic.val)
          IN  IF IsErr(r) THEN read = r
              ELSE /\ read.tag = "ReadFromPubSub"
                   /\ PopulatedAsParsed(read.source, "topic_name", "subscription_name", r)
    /\ (Truthy(read_args.subscription) /\ ~Truthy(read_args.topic)) =>
          LET r == parse_subscription(read_args.subscription.val)
          IN  IF IsErr(r) THEN read = r
              ELSE /\ read.tag = "ReadFromPubSub"
                   /\ PopulatedAsParsed(read.source, "subscription_name", "topic_name", r)
    /\ read.tag = "ReadFromPubSub" =>
          (read.source.topic_name = None) # (read.source.subscription_name = None)

(* C3 as stated: MissingAddress when topic and subscription are both       *)
(* absent (None), ConflictingAddress when both are present (not None), and *)
(* every successful construction populates exactly one of topicName /      *)
(* subscriptionName, with project, from the parser's result.               *)
C3_AddressAsStated ==
    read # Pending =>
        /\ (read_args.topic = None /\ read_args.subscription = None) =>
              read = Err("MissingAddress")
        /\ (read_args.topic # None /\ read_args.subscription # None) =>
              read = Err("ConflictingAddress")
        /\ read.tag = "ReadFromPubSub" =>
              (read.source.topic_name = None) # (read.source.subscription_name = None)

(* C3 amended: MissingAddress when topic and subscription are both None or *)
(* empty, ConflictingAddress when both are non-empty strings; with exactly *)
(* one non-empty, a parser failure propagates unchanged, and otherwise     *)
(* exactly that one of topicName / subscriptionName is populated, with     *)
(* project, from the parser's result, the other staying absent.            *)
C3_AddressByTruthiness ==
    read # Pending =>
        /\ (~Truthy(read_args.topic) /\ ~Truthy(read_args.subscription)) =>
              read = Err("MissingAddress")
        /\ (Truthy(read_args.topic) /\ Truthy(read_args.subscription)) =>
              read = Err("ConflictingAddress")
        /\ SourceOfExactlyOne

\* built from an empty topic and a subscription
C3_Witness ==
    /\ read.tag = "ReadFromPubSub"
    /\ read_args.topic = Str(<<>>)
    /\ read.source.topic_name = None
    /\ read.source.subscription_name = Str(<<"s">>)

(* C9: exporting a ReadTransform's configuration and reconstructing from   *)
(* the payload succeeds and gives the same topic, subscription,            *)
(* dedupAttribute, timestampAttribute and withAttributes; an absent field  *)
(* stays absent and exactly one of topic / subscription is still set.      *)
C9_ExportRoundTrip ==
    (read.tag = "ReadFromPubSub" /\ rebuilt # Pending) =>
        /\ rebuilt.tag = "ReadFromPubSub"
        /\ rebuilt.source.full_topic = read.source.full_topic
        /\ rebuilt.source.full_subscription = read.source.full_subscription
        /\ rebuilt.source.id_label = read.source.id_label
        /\ rebuilt.source.timestamp_attribute = read.source.timestamp_attribute
        /\ rebuilt.with_attributes = read.with_attributes
        /\ (rebuilt.source.full_topic = None) # (rebuilt.source.full_subscription = None)

----------------------------------------------------------------------------
(* Claims about WriteToPubSub, checked under SpecWrite *)

IsMessage(element) == element.tag = "PubsubMessage"

(* C8: with withAttributes, every Message element is mapped to             *)
(* encode(element) and an element that is not a Message fails with         *)
(* TypeMismatch and is never forwarded; without withAttributes every       *)
(* element is forwarded unchanged and no type check is applied.            *)
C8_WriteElements ==
    /\ Len(written) <= Len(pcoll)
    /\ ~write_with_attributes =>
          /\ write_error = None
          /\ \A i \in 1..Len(written) : written[i] = pcoll[i]
    /\ write_with_attributes =>
          /\ \A i \in 1..Len(written) :
                /\ IsMessage(pcoll[i])
                /\ written[i] = Message_to_proto_str(pcoll[i])
          /\ write_error # None =>
                LET element == pcoll[Len(written) + 1]
                IN  IF IsMessage(element)
                    THEN write_error = Message_to_proto_str(element)
                    ELSE write_error = Err("TypeMismatch")

\* raw bytes after a message: the message went out encoded, the bytes did not
C8_Witness ==
    /\ write_with_attributes
    /\ Len(pcoll) = 2
    /\ IsMessage(pcoll[1])
    /\ ~IsMessage(pcoll[2])
    /\ Len(written) = 1
    /\ written[1].tag = "bytes"
    /\ write_error = Err("TypeMismatch")

----------------------------------------------------------------------------
(* Claims about MultipleReadFromPubSub, checked under SpecMulti *)

Resolved(value, i) == IF value.tag = "list" THEN value.val[i] ELSE value

WrongLength(value) ==
    value.tag = "list" /\ Len(value.val) # Len(multi_args.source_list)

(* C7: dedupAttribute and timestampAttribute are resolved, each on its     *)
(* own, into a list of length N: a scalar or absent value is used for      *)
(* every source, a list of length N gives source i its i-th entry, a list  *)
(* of another length fails with ParameterCountMismatch; the ReadTransform  *)
(* built for source i uses exactly dedupAttribute[i] and                   *)
(* timestampAttribute[i].                                                  *)
C7_PerSourceParameters ==
    multi # Pending =>
        /\ (WrongLength(multi_args.id_label) \/ WrongLength(multi_args.timestamp_attribute))
              => multi = Err("ParameterCountMismatch")
        /\ multi.tag = "MultipleReadFromPubSub" =>
              /\ Len(multi.id_label) = Len(multi_args.source_list)
              /\ Len(multi.timestamp_attribute) = Len(multi_args.source_list)
              /\ \A i \in DOMAIN multi_args.source_list :
                    /\ multi.id_label[i] = Resolved(multi_args.id_label, i)
                    /\ multi.timestamp_attribute[i] =
                          Resolved(multi_args.timestamp_attribute, i)
              /\ \A i \in DOMAIN sources_pcol :
                    /\ sources_pcol[i].read.source.id_label =
                          Resolved(multi_args.id_label, i)
                    /\ sources_pcol[i].read.source.timestamp_attribute =
                          Resolved(multi_args.timestamp_attribute, i)

\* two reads built, the second from the second entry of a list
C7_Witness ==
    /\ multi_args.id_label = LabelList(2)
    /\ multi_args.timestamp_attribute = Str(<<"i", "d">>)
    /\ Len(sources_pcol) = 2
    /\ sources_pcol[2].read.source.id_label = Str(<<"i", "d", "2">>)
    /\ sources_pcol[1].read.source.timestamp_attribute = Str(<<"i", "d">>)

SomeSourceInvalid ==
    \E i \in DOMAIN multi_args.source_list : ~MatchesSource(multi_args.source_list[i])

NoFanOutObject ==
    /\ IsErr(multi)
    /\ expand_pc = "idle"
    /\ sources_pcol = <<>>
    /\ merged = <<>>

(* C10 as stated: construction fails with InvalidSource whenever some      *)
(* string of the source list matches neither pattern, whatever its         *)
(* position, and no fan-out object is produced.                            *)
C10_InvalidSourceAsStated ==
    (multi # Pending /\ SomeSourceInvalid) =>
        /\ multi = Err("InvalidSource")
        /\ NoFanOutObject

(* C10 amended: whenever some string of the source list matches neither    *)
(* pattern, whatever its position, construction fails and no fan-out       *)
(* object is produced; the failure is ParameterCountMismatch when          *)
(* dedupAttribute or timestampAttribute is a list of the wrong length      *)
(* (those are checked first) and InvalidSource otherwise.                  *)
C10_InvalidSourceAfterLengths ==
    (multi # Pending /\ SomeSourceInvalid) =>
        /\ NoFanOutObject
        /\ multi = IF \/ WrongLength(multi_args.id_label)
                      \/ WrongLength(multi_args.timestamp_attribute)
                   THEN Err("ParameterCountMismatch")
                   ELSE Err("InvalidSource")

\* a good source first, the bad one second
C10_Witness ==
    /\ Len(multi_args.source_list) = 2
    /\ MatchesSource(multi_args.source_list[1])
    /\ ~MatchesSource(multi_args.source_list[2])
    /\ multi = Err("InvalidSource")

----------------------------------------------------------------------------
\* what a source delivered, with or without the source string paired to it
Delivered(out) == IF out.tag = "tuple" THEN out.second ELSE out

\* how many times an element stands in a sequence
Occurrences(q, e) == Cardinality({k \in DOMAIN q : q[k] = e})

MergedElements == [k \in DOMAIN merged |-> Delivered(merged[k])]

(* C12: under every interleaving of the N per-source streams the merged    *)
(* output holds each element a source emitted exactly once, nothing lost   *)
(* and nothing duplicated: every one of the N streams is an input of the  *)
(* merge, every emitted element is either still pending at its own source *)
(* or in the output, once in all, so the output is the multiset union of  *)
(* the streams when they are drained, and the output holds nothing that    *)
(* no source emitted. The merge can take a pending element of a source     *)
(* whatever the other sources have produced.                               *)
C12_MergeIsUnion ==
    expand_pc = "flattened" =>
        /\ DOMAIN pending = DOMAIN multi.source_list
        /\ \A i \in DOMAIN multi.source_list :
              /\ \A n \in 1..produced[i] :
                    LET e == [tag |-> "element", from |-> i, seq |-> n]
                    IN  Occurrences(MergedElements, e)
                          + Occurrences(pending[i], e) = 1
              /\ pending[i] # <<>> => ENABLED MergeFrom(i)
        /\ \A k \in DOMAIN merged :
              /\ MergedElements[k].from \in DOMAIN multi.source_list
              /\ MergedElements[k].seq \in 1..produced[MergedElements[k].from]

\* of two sources the first has delivered an element and the merge has put
\* it out, while the second has produced nothing
C12_Witness ==
    /\ expand_pc = "flattened"
    /\ Len(multi.source_list) = 2
    /\ produced[1] > 0
    /\ produced[2] = 0
    /\ pending[1] = <<>>
    /\ \E k \in DOMAIN merged : MergedElements[k].from = 1

----------------------------------------------------------------------------
ResourceNameErrors ==
    {Err("InvalidFormat"), Err("InvalidProjectId"),
     Err("MissingAddress"), Err("ConflictingAddress")}

\* source i went to the read as its topic when it matches the topic pattern
\* and as its subscription otherwise
RoutedByPattern(i) ==
    LET src == multi.source_list[i]
        config == sources_pcol[i].read.source
    IN  IF ReMatchResource(TopicsInfix, src) # NoMatch
        THEN config.full_topic = Str(src) /\ config.full_subscription = None
        ELSE config.full_subscription = Str(src) /\ config.full_topic = None

(* C13: every source list that the fan-out constructor accepts expands     *)
(* without a resource-name error: expand passes each source as topic when  *)
(* it matches the topic pattern and as subscription otherwise, and the     *)
(* construction of the source's configuration raises neither               *)
(* InvalidFormat nor InvalidProjectId nor MissingAddress nor               *)
(* ConflictingAddress.                                                     *)
C13_AcceptedListExpands ==
    multi.tag = "MultipleReadFromPubSub" =>
        /\ expand_error \notin ResourceNameErrors
        /\ expand_pc # "raised"
        /\ \A i \in DOMAIN sources_pcol : RoutedByPattern(i)

=============================================================================
